---- MODULE Spec2Model ----
(***************************************************************************)
(* The ETL orchestration pipeline of the "Automated Data Catalog & ETL"    *)
(* application: the React state of App.tsx, the module state of            *)
(* pgliteService.ts, the file picker of FileUpload.tsx and the two LLM     *)
(* clients, with every asynchronous continuation as a task in flight.      *)
(*                                                                         *)
(* A handler runs to completion up to its next await on an external        *)
(* collaborator (the LLM service, the embedded database, the file reader); *)
(* an awaited call that returns without such a wait (a guard of the        *)
(* service that returns at once) continues in the same action.  State      *)
(* setters of an unmounted component change nothing.                       *)
(***************************************************************************)
EXTENDS Integers, Sequences, FiniteSets, Bags, TLC

\* ------------------------------------------------------------- bounds
MaxUploads == 2     \* file selections in the file picker
MaxResets == 2      \* clicks on "Start Over" / "Reset"
MaxTime == 1        \* the clock (Date.now()) takes the values 0..MaxTime
MaxRows == 2        \* data rows of an uploaded file

\* ------------------------------------------------------------- values
None == <<>>
Some(v) == <<v>>
IsSome(o) == o # <<>>
The(o) == o[1]

Upload == "Upload"
AnalyzingSchema == "AnalyzingSchema"
ReviewSchema == "ReviewSchema"
GeneratingSql == "GeneratingSql"
ReviewSql == "ReviewSql"
ProcessingDb == "ProcessingDb"
Done == "Done"
Error == "Error"
AppStep ==
  {Upload, AnalyzingSchema, ReviewSchema, GeneratingSql, ReviewSql, ProcessingDb, Done, Error}

MAX_PREVIEW_ROWS == 1

VARIABLES
  apiKey,      \* process.env.API_KEY is set
  lifecycle,   \* "init" (rendered, effect not yet run), "mounted", "unmounted"
  ui,          \* the React state of App
  svc,         \* the module variables of pgliteService: dbInstance, currentDbName
  conns,       \* every PGlite instance ever constructed, in order of construction
  reads,       \* FileReader reads in flight (bag)
  tasks,       \* awaits in flight (bag)
  now,         \* Date.now()
  ev,          \* the handler or continuation that ran last, and its outcome
  nUploads,
  nResets

vars == <<apiKey, lifecycle, ui, svc, conns, reads, tasks, now, ev, nUploads, nResets>>

\* Mutant of isApiKeyMissing: the check reads a variable that is always set.
isApiKeyMissing_Never == FALSE

\* App.tsx:45
isApiKeyMissing == ~apiKey

\* part_000:16   const ai = API_KEY ? new GoogleGenAI(...) : null
ai == IF apiKey THEN Some("GoogleGenAI") ELSE None

\* ------------------------------------------------------------- files
\* A file name is the sequence of its parts between dots
\* (fileName.split('.')); the content carries what each of the two external
\* parsers makes of the text: the rows Papa.parse returns, and the outcome of
\* JSON.parse (k: "invalid" when it throws, otherwise the kind of the value;
\* v: the elements of an array, or the one value that is not an array).
Value(t, f, i) == [t |-> t, f |-> f, i |-> i]
Row(f, i) == Value("object", f, i)
Rows(f, n) == [i \in 1..n |-> Row(f, i)]

InvalidJson == [k |-> "invalid", v |-> <<>>]

Files(id) ==
  { [id |-> id, name |-> <<"data", "csv">>, type |-> "text/csv",
     content |-> [papa |-> Rows(id, MaxRows), json |-> InvalidJson]],
    [id |-> id, name |-> <<"data", "CSV">>, type |-> "text/csv",
     content |-> [papa |-> <<>>, json |-> InvalidJson]],
    [id |-> id, name |-> <<"data", "json">>, type |-> "application/json",
     content |-> [papa |-> <<>>, json |-> InvalidJson]],
    [id |-> id, name |-> <<"data", "json">>, type |-> "application/json",
     content |-> [papa |-> <<>>, json |-> [k |-> "null", v |-> <<Value("null", id, 1)>>]]] }

\* Every shape of name and content, for the runs of a single upload.
FileNames ==
  { <<"data", "csv">>, <<"data", "CSV">>, <<"data", "json">>, <<"data", "Json">>,
    <<"data", "txt">>, <<"data", "csv", "txt">>, <<"data">>, <<"csv">>, <<"json">> }

JsonTexts(id) ==
  { InvalidJson,
    [k |-> "array", v |-> Rows(id, MaxRows)],
    [k |-> "array", v |-> <<>>],
    [k |-> "object", v |-> <<Row(id, 1)>>],
    [k |-> "number", v |-> <<Value("number", id, 1)>>],
    [k |-> "string", v |-> <<Value("string", id, 1)>>],
    [k |-> "boolean", v |-> <<Value("boolean", id, 1)>>],
    [k |-> "null", v |-> <<Value("null", id, 1)>>] }

AllFiles(id) ==
  { [id |-> id, name |-> n, type |-> ty, content |-> [papa |-> p, json |-> j]] :
      n \in FileNames, ty \in {"text/csv", "application/json"},
      p \in {Rows(id, MaxRows), <<>>}, j \in JsonTexts(id) }

toLowerCase(s) ==
  CASE s \in {"CSV", "Csv"} -> "csv"
    [] s \in {"JSON", "Json"} -> "json"
    [] s \in {"TXT", "Txt"} -> "txt"
    [] OTHER -> s

\* Mutant of parseData: a JSON array loses its last element.
parseData_DropsLast(fileName, fileContent) ==
  LET fileExtension == toLowerCase(fileName[Len(fileName)])
  IN  IF fileExtension = "csv"
      THEN [ok |-> TRUE, error |-> "", data |-> fileContent.papa]
      ELSE IF fileExtension = "json"
      THEN IF fileContent.json.k = "invalid"
           THEN [ok |-> FALSE, error |-> "Invalid JSON format.", data |-> <<>>]
           ELSE IF fileContent.json.k = "array"
                THEN [ok |-> TRUE, error |-> "",
                      data |-> SubSeq(fileContent.json.v, 1, Len(fileContent.json.v) - 1)]
                ELSE [ok |-> TRUE, error |-> "", data |-> <<fileContent.json.v[1]>>]
      ELSE [ok |-> FALSE, error |-> "Unsupported file type. Please use CSV or JSON.", data |-> <<>>]

\* part_000:202-228.  ok with the rows returned, or not ok with the message of
\* the Error thrown.
parseData(fileName, fileContent) ==
  LET fileExtension == toLowerCase(fileName[Len(fileName)])
  IN  IF fileExtension = "csv"
      THEN [ok |-> TRUE, error |-> "", data |-> fileContent.papa]
      ELSE IF fileExtension = "json"
      THEN IF fileContent.json.k = "invalid"
           THEN [ok |-> FALSE, error |-> "Invalid JSON format.", data |-> <<>>]
           ELSE IF fileContent.json.k = "array"
                THEN [ok |-> TRUE, error |-> "", data |-> fileContent.json.v]
                ELSE [ok |-> TRUE, error |-> "", data |-> <<fileContent.json.v[1]>>]
      ELSE [ok |-> FALSE, error |-> "Unsupported file type. Please use CSV or JSON.", data |-> <<>>]

slice(s, n) == IF Len(s) <= n THEN s ELSE SubSeq(s, 1, n)

\* ------------------------------------------------------------- React state
\* stepWrites is history: the calls of setCurrentStep of the handler segment
\* that ran last, each with the function that made it, after the step the
\* segment started from.
InitUi ==
  [ currentStep |-> Upload,
    file |-> None,
    rawDataPreview |-> None,
    fullParsedData |-> None,
    schemaAnalysis |-> None,
    generatedCreateTableSql |-> None,
    etlLogs |-> <<>>,
    globalError |-> None,
    pgliteStatus |-> "inactive",
    currentDbName |-> None,
    dbDataPreview |-> None,
    stepWrites |-> <<[step |-> Upload, by |-> "useState"]>> ]

Begin(s) ==
  [s EXCEPT !.stepWrites = <<[step |-> s.currentStep, by |-> "before"]>>]

setCurrentStep(s, step, by) ==
  [s EXCEPT !.currentStep = step,
            !.stepWrites = Append(@, [step |-> step, by |-> by])]

\* Mutant of addLog: the new entry replaces the list (a setter given the value
\* instead of the updater of App.tsx:51).
addLog_Replaces(s, message, type) ==
  [s EXCEPT !.etlLogs =
     <<[id |-> now, timestamp |-> now, message |-> message, type |-> type]>>]

\* App.tsx:47-52
addLog(s, message, type) ==
  [s EXCEPT !.etlLogs =
     Append(@, [id |-> now, timestamp |-> now, message |-> message, type |-> type])]

setGlobalError(s, e) == [s EXCEPT !.globalError = e]

\* App.tsx:206-210
isLoading(s) ==
  \/ s.currentStep \in {AnalyzingSchema, GeneratingSql, ProcessingDb}
  \/ s.pgliteStatus = "initializing"

\* ------------------------------------------------------------- pgliteService
\* A world is the part of the state a handler segment reads and writes:
\* [ui, svc, conns, tasks], with three history fields for the segment: the
\* component steps that failed in it, the awaits it started, and the calls of
\* the store service it made, each with whether the service held a connection
\* (for initializePGLite: under the key asked for) and the number of rows passed.
World ==
  [ui |-> ui, svc |-> svc, conns |-> conns, tasks |-> tasks,
   failed |-> {}, awaited |-> <<>>, calls |-> <<>>]

Call(w, fn, same, rows) ==
  [w EXCEPT !.calls = Append(@, [fn |-> fn, open |-> IsSome(w.svc.dbInstance),
                                  same |-> same, rows |-> rows])]

Await(w, t) ==
  [w EXCEPT !.tasks = @ (+) SetToBag({t}), !.awaited = Append(@, t.kind)]

Fail(w, component) == [w EXCEPT !.failed = @ \cup {component}]

InitSvc == [dbInstance |-> None, currentDbName |-> None]

\* new pgliteModule.PGlite(`pglite://${dbName}`)
NewPGlite(dbName) ==
  [name |-> dbName, state |-> "starting", closeCalls |-> 0, tables |-> <<>>]

\* pgliteService.ts:106-118, up to the await of dbInstance.close(): the call of
\* close() is made at once, the finally block runs when it settles.
closePGLite(w) ==
  IF IsSome(w.svc.dbInstance)
  THEN LET c == The(w.svc.dbInstance)
       IN  Await([w EXCEPT !.conns[c].closeCalls = @ + 1],
                 [kind |-> "close", conn |-> c])
  ELSE w

\* Mutant of closePGLiteFinally: the stored key survives the close.
closePGLiteFinally_KeepsKey(w) ==
  [w EXCEPT !.svc.dbInstance = None]

\* pgliteService.ts:113-116, the finally block of closePGLite
closePGLiteFinally(w) ==
  [w EXCEPT !.svc = [dbInstance |-> None, currentDbName |-> None]]

\* PGlite.close() settling: a resolved close leaves the instance closed
SettleClose(w, c, outcome) ==
  IF outcome = "ok" THEN [w EXCEPT !.conns[c].state = "closed"] ELSE w

\* Mutants of resetState.
\* The step is set to Upload whether or not the credential is there.
resetState_AlwaysUpload(w, currentDbName) ==
  LET s1 == setCurrentStep(w.ui, Upload, "resetState")
      s2 == [s1 EXCEPT !.file = None,
                       !.rawDataPreview = None,
                       !.fullParsedData = None,
                       !.schemaAnalysis = None,
                       !.generatedCreateTableSql = None]
      s3 == IF ~isApiKeyMissing THEN setGlobalError(s2, None) ELSE s2
      s4 == [s3 EXCEPT !.pgliteStatus = "inactive"]
      w4 == [w EXCEPT !.ui = s4]
      w5 == IF IsSome(currentDbName) THEN closePGLite(w4) ELSE w4
      s6 == [w5.ui EXCEPT !.currentDbName = None, !.dbDataPreview = None]
  IN  [w5 EXCEPT !.ui = addLog(s6, <<"State reset. Ready for new file upload.">>, "info")]

\* The error is never cleared.
resetState_KeepsError(w, currentDbName) ==
  LET s1 == setCurrentStep(w.ui, IF isApiKeyMissing THEN Error ELSE Upload, "resetState")
      s2 == [s1 EXCEPT !.file = None,
                       !.rawDataPreview = None,
                       !.fullParsedData = None,
                       !.schemaAnalysis = None,
                       !.generatedCreateTableSql = None]
      s4 == [s2 EXCEPT !.pgliteStatus = "inactive"]
      w4 == [w EXCEPT !.ui = s4]
      w5 == IF IsSome(currentDbName) THEN closePGLite(w4) ELSE w4
      s6 == [w5.ui EXCEPT !.currentDbName = None, !.dbDataPreview = None]
  IN  [w5 EXCEPT !.ui = addLog(s6, <<"State reset. Ready for new file upload.">>, "info")]

\* The log is cleared with the rest (setEtlLogs([]) of App.tsx:75 made live).
resetState_ClearsLog(w, currentDbName) ==
  LET s1 == setCurrentStep(w.ui, IF isApiKeyMissing THEN Error ELSE Upload, "resetState")
      s2 == [s1 EXCEPT !.file = None,
                       !.rawDataPreview = None,
                       !.fullParsedData = None,
                       !.schemaAnalysis = None,
                       !.generatedCreateTableSql = None,
                       !.etlLogs = <<>>]
      s3 == IF ~isApiKeyMissing THEN setGlobalError(s2, None) ELSE s2
      s4 == [s3 EXCEPT !.pgliteStatus = "inactive"]
      w4 == [w EXCEPT !.ui = s4]
      w5 == IF IsSome(currentDbName) THEN closePGLite(w4) ELSE w4
      s6 == [w5.ui EXCEPT !.currentDbName = None, !.dbDataPreview = None]
  IN  [w5 EXCEPT !.ui = addLog(s6, <<"State reset. Ready for new file upload.">>, "info")]

\* ------------------------------------------------------------- resetState
\* App.tsx:67-86; currentDbName is the value the callback closed over.
resetState(w, currentDbName) ==
  LET s1 == setCurrentStep(w.ui, IF isApiKeyMissing THEN Error ELSE Upload, "resetState")
      s2 == [s1 EXCEPT !.file = None,
                       !.rawDataPreview = None,
                       !.fullParsedData = None,
                       !.schemaAnalysis = None,
                       !.generatedCreateTableSql = None]
      s3 == IF ~isApiKeyMissing THEN setGlobalError(s2, None) ELSE s2
      s4 == [s3 EXCEPT !.pgliteStatus = "inactive"]
      w4 == [w EXCEPT !.ui = s4]
      w5 == IF IsSome(currentDbName) THEN closePGLite(w4) ELSE w4
      s6 == [w5.ui EXCEPT !.currentDbName = None, !.dbDataPreview = None]
  IN  [w5 EXCEPT !.ui = addLog(s6, <<"State reset. Ready for new file upload.">>, "info")]

\* ------------------------------------------------------------- geminiService
\* What the LLM service answers to a request: the call rejects (threw), or the
\* response text is a body, optionally wrapped in a markdown code fence.
\* The body of a schema answer is the outcome of JSON.parse on it: k is
\* "invalid" for text that is no JSON, "empty" for the empty string, otherwise
\* the kind of the JSON value and v the value; `of` is the upload whose sample
\* the prompt carried.
Json(k, v, of) == [k |-> k, v |-> v, of |-> of]

JsonBodies(of) ==
  { Json("invalid", "", of), Json("empty", "", of),
    Json("array", "columns", of), Json("array", "none", of),
    Json("object", "x", of),
    Json("number", "0", of), Json("number", "1", of),
    Json("string", "", of), Json("string", "x", of),
    Json("boolean", "false", of), Json("boolean", "true", of),
    Json("null", "null", of) }

Answer(threw, fence, body) == [threw |-> threw, fence |-> fence, body |-> body]

AnalyzeResponses(of) ==
  { Answer(TRUE, "none", Json("invalid", "", of)),
    Answer(FALSE, "none", Json("array", "columns", of)),
    Answer(FALSE, "none", Json("object", "x", of)) }

AllAnalyzeResponses(of) ==
  { Answer(TRUE, "none", Json("invalid", "", of)) }
    \cup { Answer(FALSE, f, b) : f \in {"none", "json"}, b \in JsonBodies(of) }

\* JSON.parse(str) returns a value
Parses(b) == b.k \notin {"invalid", "empty"}

\* !value
Falsy(b) == b.k = "null" \/ (b.k \in {"number", "string", "boolean"} /\ b.v \in {"0", "", "false"})

\* part_000:27-46: the parsed value, or null.  A fenced text is unwrapped when
\* the fence holds something (match && match[2]); the text with its fence is
\* no JSON.
parseJsonFromMarkdown(text) ==
  LET null == Json("null", "null", text.body.of)
      fenced == text.fence # "none"
      jsonStr == IF fenced /\ text.body.k # "empty" THEN text.body
                 ELSE IF fenced THEN Json("invalid", "", text.body.of)
                 ELSE text.body
  IN  IF Parses(jsonStr) THEN jsonStr
      ELSE IF ~fenced /\ Parses(text.body) THEN text.body
      ELSE null

\* Mutant of analyzeSchemaReturn: any parsed value that is not null is taken as
\* the analysis (the Array.isArray check of part_000:88 left out).
analyzeSchemaReturn_AnyShape(resp) ==
  IF resp.threw
  THEN [analysis |-> None, error |-> Some("Gemini API error")]
  ELSE LET parsedResult == parseJsonFromMarkdown(resp)
       IN  IF Falsy(parsedResult)
           THEN [analysis |-> None,
                 error |-> Some("Failed to parse schema analysis from LLM response.")]
           ELSE [analysis |-> Some(parsedResult), error |-> None]

\* part_000:83-97, the continuation of analyzeSchemaWithGemini after the await
analyzeSchemaReturn(resp) ==
  IF resp.threw
  THEN [analysis |-> None, error |-> Some("Gemini API error")]
  ELSE LET parsedResult == parseJsonFromMarkdown(resp)
       IN  IF Falsy(parsedResult)
           THEN [analysis |-> None,
                 error |-> Some("Failed to parse schema analysis from LLM response.")]
           ELSE IF parsedResult.k # "array"
           THEN [analysis |-> None,
                 error |-> Some("LLM response for schema analysis was not in the expected array format.")]
           ELSE [analysis |-> Some(parsedResult), error |-> None]

\* The body of an SQL answer is how its text begins once trimmed; a fence is
\* "sql" (three backticks, with or without the word sql), or "tagged" with
\* another language name.
SqlBodies == {"CREATE TABLE", "create table", "SELECT", ""}

SqlResponses ==
  { Answer(TRUE, "none", ""), Answer(FALSE, "none", "CREATE TABLE"), Answer(FALSE, "none", "SELECT") }

AllSqlResponses ==
  { Answer(TRUE, "none", "") }
    \cup { Answer(FALSE, f, b) : f \in {"none", "sql", "tagged"}, b \in SqlBodies }

toUpperCase(s) ==
  CASE s = "create table" -> "CREATE TABLE"
    [] s = "postgres" -> "POSTGRES"
    [] OTHER -> s

\* part_000:128-134: the statement once the fence is removed.  The fence
\* pattern takes a language name other than sql into the statement, and an
\* empty fence is left as it is.
sqlStatementOf(text) ==
  CASE text.fence = "none" -> text.body
    [] text.fence = "sql" -> IF text.body # "" THEN text.body ELSE "fence"
    [] text.fence = "tagged" -> "postgres"

\* Mutant of generateSqlReturn: the statement is returned unchecked.
generateSqlReturn_Unchecked(resp, columns, baseTableName) ==
  IF resp.threw
  THEN [sql |-> None, error |-> Some(<<"Gemini API error">>)]
  ELSE [sql |-> Some([stmt |-> sqlStatementOf(resp), table |-> baseTableName, columns |-> columns]),
        error |-> None]

\* part_000:128-145, the continuation of generateSqlSchemaWithGemini
generateSqlReturn(resp, columns, baseTableName) ==
  IF resp.threw
  THEN [sql |-> None, error |-> Some(<<"Gemini API error">>)]
  ELSE LET sqlStatement == sqlStatementOf(resp)
       IN  IF toUpperCase(sqlStatement) # "CREATE TABLE"
           THEN [sql |-> None,
                 error |-> Some(<<"LLM did not return a valid CREATE TABLE statement. Response: ", sqlStatement>>)]
           ELSE [sql |-> Some([stmt |-> sqlStatement, table |-> baseTableName, columns |-> columns]),
                 error |-> None]

\* part_000:53 and :104
NoClient == Some("Gemini API client not initialized. API_KEY might be missing.")

\* ------------------------------------------------------------- handleFileUpload
\* Mutant of uploadCatch: the error is logged but not stored.
uploadCatch_NoGlobalError(w, errorMessage) ==
  LET s1 == addLog(w.ui, <<"Error during file processing or schema analysis: ", errorMessage>>, "error")
  IN  [w EXCEPT !.ui = setCurrentStep(s1, Error, "handleFileUpload")]

\* App.tsx:119-124, the catch block
uploadCatch(w, errorMessage) ==
  LET s1 == addLog(w.ui, <<"Error during file processing or schema analysis: ", errorMessage>>, "error")
      s2 == setGlobalError(s1, Some(<<"Failed to process file or analyze schema: ", errorMessage>>))
  IN  [w EXCEPT !.ui = setCurrentStep(s2, Error, "handleFileUpload")]

\* Mutant of uploadAfterAnalyze: a failed analysis is asked for again.
uploadAfterAnalyze_Retries(w, analysisResult) ==
  IF IsSome(analysisResult.error) \/ ~IsSome(analysisResult.analysis)
  THEN IF IsSome(w.ui.file) /\ IsSome(w.ui.fullParsedData)
       THEN Await(w, [kind |-> "analyze", file |-> The(w.ui.file), data |-> The(w.ui.fullParsedData)])
       ELSE uploadCatch(w, "Schema analysis failed to return data.")
  ELSE LET s1 == [w.ui EXCEPT !.schemaAnalysis = analysisResult.analysis]
           s2 == addLog(s1, <<"Schema analysis complete.">>, "success")
       IN  [w EXCEPT !.ui = setCurrentStep(s2, ReviewSchema, "handleFileUpload")]

\* App.tsx:112-117, after the await of analyzeSchemaWithGemini
uploadAfterAnalyze(w, analysisResult) ==
  IF IsSome(analysisResult.error) \/ ~IsSome(analysisResult.analysis)
  THEN uploadCatch(w, IF IsSome(analysisResult.error)
                      THEN The(analysisResult.error)
                      ELSE "Schema analysis failed to return data.")
  ELSE LET s1 == [w.ui EXCEPT !.schemaAnalysis = analysisResult.analysis]
           s2 == addLog(s1, <<"Schema analysis complete.">>, "success")
       IN  [w EXCEPT !.ui = setCurrentStep(s2, ReviewSchema, "handleFileUpload")]

\* part_000:19-25: Object.keys(sample[0]) throws a TypeError for a first row
\* that is null
prepareDataSampleThrows(data) == Len(data) > 0 /\ data[1].t = "null"

\* part_000:49-81, analyzeSchemaWithGemini up to its await: without a client it
\* returns at once; the sample is built outside the try block, so its TypeError
\* rejects the call and lands in the catch block of handleFileUpload;
\* otherwise one request goes to the LLM service.
analyzeSchemaWithGemini(w, data, uploadedFile) ==
  IF ~IsSome(ai)
  THEN uploadAfterAnalyze(Fail(w, "inference"), [analysis |-> None, error |-> NoClient])
  ELSE IF prepareDataSampleThrows(data)
  THEN uploadCatch(Fail(w, "inference"), "Cannot convert undefined or null to object")
  ELSE Await(w, [kind |-> "analyze", file |-> uploadedFile, data |-> data])

\* App.tsx:89-111; currentDbName is the value resetState closed over when the
\* file picker took this callback.
handleFileUpload(w, currentDbName, uploadedFile) ==
  IF isApiKeyMissing THEN w
  ELSE
    LET w1 == resetState(w, currentDbName)
        s2 == addLog(w1.ui, <<"File selected: ", uploadedFile.name[1]>>, "info")
        s3 == [s2 EXCEPT !.file = Some(uploadedFile)]
        w4 == [w1 EXCEPT !.ui = setCurrentStep(s3, AnalyzingSchema, "handleFileUpload")]
        parsed == parseData(uploadedFile.name, uploadedFile.content)
    IN  IF ~parsed.ok THEN uploadCatch(Fail(w4, "parse"), parsed.error)
        ELSE
          LET s5 == [w4.ui EXCEPT !.rawDataPreview = Some(slice(parsed.data, MAX_PREVIEW_ROWS)),
                                  !.fullParsedData = Some(parsed.data)]
              s6 == addLog(s5, <<"Successfully parsed rows: ", ToString(Len(parsed.data))>>, "info")
          IN  IF Len(parsed.data) = 0
              THEN LET s7 == addLog(s6, <<"Uploaded file is empty or contains no data rows.">>, "warning")
                       s8 == setGlobalError(s7, Some(<<"Uploaded file contains no data.">>))
                   IN  [w4 EXCEPT !.ui = setCurrentStep(s8, Error, "handleFileUpload")]
              ELSE analyzeSchemaWithGemini(
                     [w4 EXCEPT !.ui = addLog(s6, <<"Starting schema analysis with Gemini...">>, "info")],
                     parsed.data, uploadedFile)

\* ------------------------------------------------------------- handleGenerateSql
\* App.tsx:132 and :170   file.name.split('.')[0].replace(/[^a-zA-Z0-9_]/g, '_') || 'uploaded_data'
sanitize(s) ==
  CASE s = "my-data" -> "my_data"
    [] OTHER -> s

baseTableNameOf(f) ==
  IF sanitize(f.name[1]) = "" THEN "uploaded_data" ELSE sanitize(f.name[1])

\* App.tsx:135-144, after the await of generateSqlSchemaWithGemini
generateAfterSql(w, sqlResult) ==
  IF IsSome(sqlResult.error) \/ ~IsSome(sqlResult.sql)
  THEN LET errorMessage == IF IsSome(sqlResult.error)
                           THEN The(sqlResult.error)
                           ELSE <<"SQL generation failed to return data.">>
           s1 == addLog(w.ui, <<"Error generating SQL: ">> \o errorMessage, "error")
           s2 == setGlobalError(s1, Some(<<"Failed to generate SQL: ">> \o errorMessage))
       IN  [w EXCEPT !.ui = setCurrentStep(s2, Error, "handleGenerateSql")]
  ELSE LET s1 == [w.ui EXCEPT !.generatedCreateTableSql = sqlResult.sql]
           s2 == addLog(s1, <<"SQL CREATE TABLE statement generated.">>, "success")
       IN  [w EXCEPT !.ui = setCurrentStep(s2, ReviewSql, "handleGenerateSql")]

\* part_000:100-126, generateSqlSchemaWithGemini up to its await
generateSqlSchemaWithGemini(w, columns, baseTableName) ==
  IF ~IsSome(ai)
  THEN generateAfterSql(Fail(w, "generation"), [sql |-> None, error |-> Some(<<The(NoClient)>>)])
  ELSE Await(w, [kind |-> "gensql", columns |-> columns, baseTableName |-> baseTableName])

\* Mutant of handleGenerateSql: the step changes without a log entry.
handleGenerateSql_NoLog(w, schemaAnalysis, file) ==
  IF ~IsSome(schemaAnalysis) \/ ~IsSome(file) \/ isApiKeyMissing THEN w
  ELSE
    LET s1 == setCurrentStep(w.ui, GeneratingSql, "handleGenerateSql")
    IN  generateSqlSchemaWithGemini([w EXCEPT !.ui = s1], The(schemaAnalysis),
                                    baseTableNameOf(The(file)))

\* App.tsx:127-134; schemaAnalysis and file are the values of the render whose
\* button was clicked.
handleGenerateSql(w, schemaAnalysis, file) ==
  IF ~IsSome(schemaAnalysis) \/ ~IsSome(file) \/ isApiKeyMissing THEN w
  ELSE
    LET s1 == setCurrentStep(w.ui, GeneratingSql, "handleGenerateSql")
        s2 == addLog(s1, <<"Generating SQL CREATE TABLE statement with Gemini...">>, "info")
    IN  generateSqlSchemaWithGemini([w EXCEPT !.ui = s2], The(schemaAnalysis),
                                    baseTableNameOf(The(file)))

\* ------------------------------------------------------------- handleProcessWithPGLite
\* The continuations are written last step first.  ctx is what the callback
\* closed over and computed: [sql, data, file, tableName].
NotInitialized == [success |-> FALSE, error |-> "PGLite not initialized.", data |-> None]

\* Mutant of processAfterQuery: the step is left at ProcessingDb.
processAfterQuery_NotDone(w, ctx, previewResult) ==
  LET s1 == IF previewResult.success /\ IsSome(previewResult.data)
            THEN addLog([w.ui EXCEPT !.dbDataPreview = previewResult.data],
                        <<"Successfully fetched rows from ", ctx.tableName>>, "success")
            ELSE addLog(w.ui, <<"Failed to fetch preview from DB: ", previewResult.error>>, "warning")
  IN  [w EXCEPT !.ui = addLog(s1, <<"ETL process completed.">>, "success")]

\* App.tsx:194-202, after the await of queryTableData
processAfterQuery(w, ctx, previewResult) ==
  LET s1 == IF previewResult.success /\ IsSome(previewResult.data)
            THEN addLog([w.ui EXCEPT !.dbDataPreview = previewResult.data],
                        <<"Successfully fetched rows from ", ctx.tableName>>, "success")
            ELSE addLog(w.ui, <<"Failed to fetch preview from DB: ", previewResult.error>>, "warning")
      s2 == setCurrentStep(s1, Done, "handleProcessWithPGLite")
  IN  [w EXCEPT !.ui = addLog(s2, <<"ETL process completed.">>, "success")]

\* pgliteService.ts:81-91, queryTableData up to its await
queryTableData(w0, ctx, limit) ==
  LET w == Call(w0, "queryTableData", FALSE, 0)
  IN  IF ~IsSome(w.svc.dbInstance)
      THEN processAfterQuery(Fail(w, "query"), ctx, NotInitialized)
      ELSE Await(w, [kind |-> "query", conn |-> The(w.svc.dbInstance), ctx |-> ctx, limit |-> limit])

\* App.tsx:184-193, after the await of batchInsertData
processAfterInsert(w, ctx, insertResult) ==
  IF ~insertResult.success
  THEN LET s1 == addLog(w.ui, <<"Failed to insert data: ", insertResult.error>>, "error")
           s2 == setGlobalError(s1, Some(<<"PGLite error: ", insertResult.error>>))
       IN  [w EXCEPT !.ui = setCurrentStep(s2, Error, "handleProcessWithPGLite")]
  ELSE LET s1 == addLog(w.ui, <<"Data insertion complete. Rows processed: ", ToString(Len(ctx.data))>>, "success")
           s2 == addLog(s1, <<"Fetching preview from table ", ctx.tableName>>, "info")
       IN  queryTableData([w EXCEPT !.ui = s2], ctx, MAX_PREVIEW_ROWS)

\* pgliteService.ts:59: Object.keys(data[0]) stands before the try block and
\* throws a TypeError for a first row that is null; the call is rejected.
batchInsertDataThrows(data) == data[1].t = "null"

\* Mutants of batchInsertData.
\* Without a connection the call reports success.
batchInsertData_MissingHandleSucceeds(w0, ctx) ==
  LET w == Call(w0, "batchInsertData", FALSE, Len(ctx.data))
  IN  IF ~IsSome(w.svc.dbInstance) \/ Len(ctx.data) = 0
      THEN processAfterInsert(w, ctx, [success |-> TRUE, error |-> "", data |-> None])
      ELSE IF batchInsertDataThrows(ctx.data)
      THEN Fail(w, "insert")
      ELSE Await(w, [kind |-> "insert", conn |-> The(w.svc.dbInstance), ctx |-> ctx])

\* An empty batch opens a transaction like any other.
batchInsertData_ZeroRowsContactsStore(w0, ctx) ==
  LET w == Call(w0, "batchInsertData", FALSE, Len(ctx.data))
  IN  IF ~IsSome(w.svc.dbInstance)
      THEN processAfterInsert(Fail(w, "insert"), ctx, NotInitialized)
      ELSE IF Len(ctx.data) > 0 /\ batchInsertDataThrows(ctx.data)
      THEN Fail(w, "insert")
      ELSE Await(w, [kind |-> "insert", conn |-> The(w.svc.dbInstance), ctx |-> ctx])

\* pgliteService.ts:51-65, batchInsertData up to its await.  The TypeError of
\* line 59 rejects the call; handleProcessWithPGLite has no catch block
\* (App.tsx:147-204), so the handler ends there with the state as it is.
batchInsertData(w0, ctx) ==
  LET w == Call(w0, "batchInsertData", FALSE, Len(ctx.data))
  IN  IF ~IsSome(w.svc.dbInstance)
      THEN processAfterInsert(Fail(w, "insert"), ctx, NotInitialized)
      ELSE IF Len(ctx.data) = 0
      THEN processAfterInsert(w, ctx, [success |-> TRUE, error |-> "", data |-> None])
      ELSE IF batchInsertDataThrows(ctx.data)
      THEN Fail(w, "insert")
      ELSE Await(w, [kind |-> "insert", conn |-> The(w.svc.dbInstance), ctx |-> ctx])

\* App.tsx:174-183, after the await of executeSql
processAfterExec(w, ctx, createTableResult) ==
  IF ~createTableResult.success
  THEN LET s1 == addLog(w.ui, <<"Failed to create table: ", createTableResult.error>>, "error")
           s2 == setGlobalError(s1, Some(<<"PGLite error: ", createTableResult.error>>))
       IN  [w EXCEPT !.ui = setCurrentStep(s2, Error, "handleProcessWithPGLite")]
  ELSE LET s1 == addLog(w.ui, <<"Table created successfully: ", ctx.tableName>>, "success")
           s2 == addLog(s1, <<"Inserting rows: ", ToString(Len(ctx.data))>>, "info")
       IN  batchInsertData([w EXCEPT !.ui = s2], ctx)

\* pgliteService.ts:36-42, executeSql up to its await
executeSql(w0, ctx) ==
  LET w == Call(w0, "executeSql", FALSE, 0)
  IN  IF ~IsSome(w.svc.dbInstance)
      THEN processAfterExec(Fail(w, "ddl"), ctx, NotInitialized)
      ELSE Await(w, [kind |-> "exec", conn |-> The(w.svc.dbInstance), ctx |-> ctx])

\* App.tsx:169-170
tableNameOf(sql, f) ==
  IF toUpperCase(sql.stmt) = "CREATE TABLE" /\ sql.table # "" THEN sql.table ELSE baseTableNameOf(f)

\* App.tsx:158-173, after the await of initializePGLite
processAfterInit(w, ctx, initResult) ==
  IF ~initResult.success
  THEN LET s1 == addLog(w.ui, <<"PGLite initialization failed: ", initResult.error>>, "error")
           s2 == setGlobalError(s1, Some(<<"PGLite failed: ", initResult.error>>))
           s3 == [s2 EXCEPT !.pgliteStatus = "error"]
       IN  [w EXCEPT !.ui = setCurrentStep(s3, Error, "handleProcessWithPGLite")]
  ELSE LET s1 == [w.ui EXCEPT !.pgliteStatus = "ready"]
           s2 == addLog(s1, <<"PGLite initialized successfully.">>, "success")
           s3 == addLog(s2, <<"Executing CREATE TABLE statement for table ", ctx.tableName>>, "info")
       IN  executeSql([w EXCEPT !.ui = s3], ctx)

\* pgliteService.ts:23-24: construct the instance and wait for it to be ready
initializeNew(w, ctx, dbName) ==
  LET c == Len(w.conns) + 1
      w1 == [w EXCEPT !.conns = Append(@, NewPGlite(dbName)),
                      !.svc.dbInstance = Some(c)]
  IN  Await(w1, [kind |-> "waitReady", conn |-> c, dbName |-> dbName, ctx |-> ctx])

\* pgliteService.ts:25-27, after the await of waitReady
initializeReady(w, ctx, dbName) ==
  processAfterInit([w EXCEPT !.svc.currentDbName = Some(dbName)], ctx,
                   [success |-> TRUE, error |-> "", data |-> None])

\* pgliteService.ts:28-33, the catch block of initializePGLite
initializeCatch(w, ctx) ==
  processAfterInit(Fail([w EXCEPT !.svc = [dbInstance |-> None, currentDbName |-> None]], "open"), ctx,
                   [success |-> FALSE, error |-> "PGLite initialization failed", data |-> None])

\* Mutant of initializePGLite: an open under the stored key reopens as well.
initializePGLite_NeverIdempotent(w0, ctx, dbName) ==
  LET w == Call(w0, "initializePGLite", w0.svc.currentDbName = Some(dbName), 0)
  IN  IF IsSome(w.svc.dbInstance)
      THEN LET c == The(w.svc.dbInstance)
           IN  Await([w EXCEPT !.conns[c].closeCalls = @ + 1],
                     [kind |-> "initClose", conn |-> c, dbName |-> dbName, ctx |-> ctx])
      ELSE initializeNew(w, ctx, dbName)

\* pgliteService.ts:7-16, initializePGLite up to its first await
initializePGLite(w0, ctx, dbName) ==
  LET w == Call(w0, "initializePGLite", w0.svc.currentDbName = Some(dbName), 0)
  IN  IF IsSome(w.svc.dbInstance) /\ w.svc.currentDbName = Some(dbName)
      THEN processAfterInit(w, ctx, [success |-> TRUE, error |-> "", data |-> None])
      ELSE IF IsSome(w.svc.dbInstance)
      THEN LET c == The(w.svc.dbInstance)
           IN  Await([w EXCEPT !.conns[c].closeCalls = @ + 1],
                     [kind |-> "initClose", conn |-> c, dbName |-> dbName, ctx |-> ctx])
      ELSE initializeNew(w, ctx, dbName)

\* App.tsx:147-156; the three values are those of the render whose button was
\* clicked.
handleProcessWithPGLite(w, generatedCreateTableSql, fullParsedData, file) ==
  IF \/ ~IsSome(generatedCreateTableSql)
     \/ ~IsSome(fullParsedData)
     \/ ~IsSome(file)
     \/ isApiKeyMissing
  THEN w
  ELSE
    LET s1 == setCurrentStep(w.ui, ProcessingDb, "handleProcessWithPGLite")
        s2 == addLog(s1, <<"Processing data with PGLite...">>, "info")
        newDbName == now
        s3 == [s2 EXCEPT !.currentDbName = Some(newDbName), !.pgliteStatus = "initializing"]
        s4 == addLog(s3, <<"Initializing PGLite database: ", ToString(newDbName)>>, "info")
        ctx == [sql |-> The(generatedCreateTableSql),
                data |-> The(fullParsedData),
                file |-> The(file),
                tableName |-> tableNameOf(The(generatedCreateTableSql), The(file))]
    IN  initializePGLite([w EXCEPT !.ui = s4], ctx, newDbName)

\* ------------------------------------------------------------- what is rendered
\* App.tsx:213   the error panel replaces the main content
ErrorPanel(s) == IsSome(s.globalError) /\ s.currentStep = Error

\* App.tsx:233 and FileUpload.tsx:54   the file input is rendered and enabled
CanPickFile(s) == ~ErrorPanel(s) /\ ~(isLoading(s) \/ isApiKeyMissing)

\* App.tsx:242-249
CanGenerateSql(s) ==
  ~ErrorPanel(s) /\ IsSome(s.schemaAnalysis) /\ s.currentStep = ReviewSchema /\ ~isLoading(s)

\* App.tsx:279-286
CanProcess(s) ==
  /\ ~ErrorPanel(s)
  /\ IsSome(s.generatedCreateTableSql)
  /\ s.currentStep = ReviewSql
  /\ ~isLoading(s)

\* App.tsx:219-224 ("Start Over") and :348-351 ("Reset / Upload New File")
CanReset(s) ==
  \/ ErrorPanel(s)
  \/ IsSome(s.file) /\ s.currentStep \notin {Upload, Error} /\ ~isLoading(s)

\* ------------------------------------------------------------- the embedded database
\* What a settled call of the PGlite instance c can have done.
Ready(c) == conns[c].state = "ready"
HasTable(c, name) == name \in DOMAIN conns[c].tables

ExecOutcomes(c, sql) ==
  IF Ready(c) /\ ~HasTable(c, sql.table) THEN {"ok", "throw"} ELSE {"throw"}

\* 0: every row inserted; k: the insert of row k raised
InsertOutcomes(c, tableName, data) ==
  IF Ready(c) /\ HasTable(c, tableName) THEN 0..Len(data) ELSE {1}

QueryOutcomes(c, tableName) ==
  IF Ready(c) /\ HasTable(c, tableName) THEN {"ok", "throw"} ELSE {"throw"}

\* ------------------------------------------------------------- actions
Awaited(kind) == {t \in BagToSet(tasks) : t.kind = kind}

Start == [World EXCEPT !.ui = Begin(ui)]

Take(t) == [Start EXCEPT !.tasks = @ (-) SetToBag({t})]

Event(op, res) ==
  [op |-> op, res |-> res, arg |-> <<>>, failed |-> {}, awaited |-> <<>>, calls |-> <<>>]

\* the answer a continuation resumed with: rejected or not, its fence, its body
Answered(e, resp, body) ==
  [e EXCEPT !.arg = <<IF resp.threw THEN "threw" ELSE "text", resp.fence>> \o body]

\* The segment's effects take place; an unmounted component has no state to set.
Commit(w, e) ==
  /\ ui' = IF lifecycle = "mounted" THEN w.ui ELSE ui
  /\ svc' = w.svc
  /\ conns' = w.conns
  /\ tasks' = w.tasks
  /\ ev' = [e EXCEPT !.failed = w.failed, !.awaited = w.awaited, !.calls = w.calls]

Init ==
  /\ apiKey \in BOOLEAN
  /\ lifecycle = "init"
  /\ ui = InitUi
  /\ svc = InitSvc
  /\ conns = <<>>
  /\ reads = EmptyBag
  /\ tasks = EmptyBag
  /\ now = 0
  /\ ev = Event("render", "")
  /\ nUploads = 0
  /\ nResets = 0

\* App.tsx:54-59, the effect after the first render
useEffect ==
  /\ lifecycle = "init"
  /\ lifecycle' = "mounted"
  /\ ui' = IF isApiKeyMissing
           THEN LET s1 == addLog(Begin(ui),
                                 <<"Critical: Gemini API Key (process.env.API_KEY) is missing. Most features will not work.">>,
                                 "error")
                    s2 == setGlobalError(s1, Some(<<"Gemini API Key is not configured. Please set the process.env.API_KEY environment variable.">>))
                IN  setCurrentStep(s2, Error, "useEffect")
           ELSE Begin(ui)
  /\ ev' = Event("useEffect", "")
  /\ UNCHANGED <<apiKey, svc, conns, reads, tasks, now, nUploads, nResets>>

\* App.tsx:60-63, the cleanup of the effect on unmount; the state of the
\* component is gone with it.
useEffectCleanup ==
  /\ lifecycle = "mounted"
  /\ lifecycle' = "unmounted"
  /\ LET w == closePGLite(Start)
     IN  /\ svc' = w.svc
         /\ conns' = w.conns
         /\ tasks' = w.tasks
  /\ ui' = InitUi
  /\ ev' = Event("useEffectCleanup", "")
  /\ UNCHANGED <<apiKey, reads, now, nUploads, nResets>>

\* Time passes.  The clock is read for the ids of log entries and for the name
\* of the database (App.tsx:152); it is let advance while the "Load" button
\* can be clicked, which yields every sequence of database names.
Tick ==
  /\ now < MaxTime
  /\ lifecycle = "mounted"
  /\ CanProcess(ui)
  /\ now' = now + 1
  /\ UNCHANGED <<apiKey, lifecycle, ui, svc, conns, reads, tasks, ev, nUploads, nResets>>

\* a click on "Start Over" or "Reset / Upload New File"
ClickReset ==
  /\ lifecycle = "mounted"
  /\ CanReset(ui)
  /\ nResets < MaxResets
  /\ nResets' = nResets + 1
  /\ Commit(resetState(Start, ui.currentDbName), Event("resetState", ""))
  /\ UNCHANGED <<apiKey, lifecycle, reads, now, nUploads>>

\* FileUpload.tsx:14-37: a file is picked; a file of another type only sets
\* the picker's own error text.
handleFileChangeOf(picked, max) ==
  /\ lifecycle = "mounted"
  /\ CanPickFile(ui)
  /\ nUploads < max
  /\ nUploads' = nUploads + 1
  /\ \E f \in picked[nUploads + 1] :
       reads' = IF f.type = "text/csv" \/ f.type = "application/json"
                THEN reads (+) SetToBag({[file |-> f, currentDbName |-> ui.currentDbName]})
                ELSE reads
  /\ ev' = Event("handleFileChange", "")
  /\ UNCHANGED <<apiKey, lifecycle, ui, svc, conns, tasks, now, nResets>>

handleFileChange == handleFileChangeOf([id \in 1..MaxUploads |-> Files(id)], MaxUploads)

\* FileUpload.tsx:19-24: the read completes and calls the handleFileUpload the
\* picker was rendered with.
ReaderOnload ==
  \E r \in BagToSet(reads) :
    /\ reads' = reads (-) SetToBag({r})
    /\ Commit(handleFileUpload(Start, r.currentDbName, r.file),
              Event("handleFileUpload", ToString(r.file.id)))
    /\ UNCHANGED <<apiKey, lifecycle, now, nUploads, nResets>>

\* FileUpload.tsx:25-28
ReaderOnerror ==
  \E r \in BagToSet(reads) :
    /\ reads' = reads (-) SetToBag({r})
    /\ ev' = Event("readerOnerror", "")
    /\ UNCHANGED <<apiKey, lifecycle, ui, svc, conns, tasks, now, nUploads, nResets>>

\* the LLM service answers a schema request
AnalyzeReturnWith(responses) ==
  \E t \in Awaited("analyze") : \E resp \in responses[t.file.id] :
    /\ LET r == analyzeSchemaReturn(resp)
       IN  Commit(uploadAfterAnalyze(IF IsSome(r.error) THEN Fail(Take(t), "inference") ELSE Take(t), r),
                  Answered(Event("analyzeReturn", IF IsSome(r.error) THEN "fail" ELSE "ok"),
                           resp, <<resp.body.k, resp.body.v>>))
    /\ UNCHANGED <<apiKey, lifecycle, reads, now, nUploads, nResets>>

AnalyzeReturn == AnalyzeReturnWith([id \in 1..MaxUploads |-> AnalyzeResponses(id)])

\* a click on "Generate SQL Schema"
ClickGenerateSql ==
  /\ lifecycle = "mounted"
  /\ CanGenerateSql(ui)
  /\ Commit(handleGenerateSql(Start, ui.schemaAnalysis, ui.file), Event("handleGenerateSql", ""))
  /\ UNCHANGED <<apiKey, lifecycle, reads, now, nUploads, nResets>>

\* the LLM service answers a SQL request
GenerateReturnWith(responses) ==
  \E t \in Awaited("gensql") : \E resp \in responses :
    /\ LET r == generateSqlReturn(resp, t.columns, t.baseTableName)
       IN  Commit(generateAfterSql(IF IsSome(r.error) THEN Fail(Take(t), "generation") ELSE Take(t), r),
                  Answered(Event("generateReturn", IF IsSome(r.error) THEN "fail" ELSE "ok"),
                           resp, <<resp.body>>))
    /\ UNCHANGED <<apiKey, lifecycle, reads, now, nUploads, nResets>>

GenerateReturn == GenerateReturnWith(SqlResponses)

\* a click on "Load to PGLite Database"
ClickProcess ==
  /\ lifecycle = "mounted"
  /\ CanProcess(ui)
  /\ Commit(handleProcessWithPGLite(Start, ui.generatedCreateTableSql, ui.fullParsedData, ui.file),
            Event("handleProcessWithPGLite", ""))
  /\ UNCHANGED <<apiKey, lifecycle, reads, now, nUploads, nResets>>

\* dbInstance.close() of closePGLite settles
CloseReturn ==
  \E t \in Awaited("close") : \E outcome \in {"ok", "throw"} :
    /\ Commit(closePGLiteFinally(SettleClose(Take(t), t.conn, outcome)),
              Event("closeReturn", outcome))
    /\ UNCHANGED <<apiKey, lifecycle, reads, now, nUploads, nResets>>

\* dbInstance.close() of initializePGLite settles
InitCloseReturn ==
  \E t \in Awaited("initClose") : \E outcome \in {"ok", "throw"} :
    /\ LET w == SettleClose(Take(t), t.conn, outcome)
       IN  Commit(IF outcome = "ok" THEN initializeNew(w, t.ctx, t.dbName)
                                    ELSE initializeCatch(w, t.ctx),
                  Event("initCloseReturn", outcome))
    /\ UNCHANGED <<apiKey, lifecycle, reads, now, nUploads, nResets>>

\* dbInstance.waitReady settles
WaitReadyReturn ==
  \E t \in Awaited("waitReady") : \E outcome \in {"ok", "throw"} :
    /\ LET w0 == Take(t)
           w == [w0 EXCEPT !.conns[t.conn].state =
                   IF @ # "starting" THEN @ ELSE IF outcome = "ok" THEN "ready" ELSE "failed"]
       IN  Commit(IF outcome = "ok" THEN initializeReady(w, t.ctx, t.dbName)
                                    ELSE initializeCatch(w, t.ctx),
                  Event("waitReadyReturn", outcome))
    /\ UNCHANGED <<apiKey, lifecycle, reads, now, nUploads, nResets>>

\* dbInstance.query(sql) of executeSql settles
ExecReturn ==
  \E t \in Awaited("exec") : \E outcome \in ExecOutcomes(t.conn, t.ctx.sql) :
    /\ LET w0 == Take(t)
           w == IF outcome = "ok"
                THEN [w0 EXCEPT !.conns[t.conn].tables = (t.ctx.sql.table :> <<>>) @@ @]
                ELSE Fail(w0, "ddl")
       IN  Commit(processAfterExec(w, t.ctx,
                    IF outcome = "ok" THEN [success |-> TRUE, error |-> "", data |-> None]
                    ELSE [success |-> FALSE, error |-> "SQL execution error", data |-> None]),
                  Event("execReturn", outcome))
    /\ UNCHANGED <<apiKey, lifecycle, reads, now, nUploads, nResets>>

\* Mutant of transaction: the rows inserted before the failing one stay.
transaction_NoRollback(table, data, k) ==
  IF k = 0 THEN table \o data ELSE table \o SubSeq(data, 1, k - 1)

\* pgliteService.ts:65-71: dbInstance.transaction runs the callback between
\* BEGIN and COMMIT; the callback inserts the rows one by one (tx.query) and the
\* first insert that raises (row k) ends the loop, the transaction is rolled
\* back and the error is thrown on.  The contents of the table afterwards.
RECURSIVE txInsert(_, _, _, _)
txInsert(work, data, i, k) ==
  IF i > Len(data) THEN [threw |-> FALSE, table |-> work]
  ELSE IF i = k THEN [threw |-> TRUE, table |-> work]
  ELSE txInsert(Append(work, data[i]), data, i + 1, k)

transaction(table, data, k) ==
  LET r == txInsert(table, data, 1, k)
  IN  IF r.threw THEN table ELSE r.table

\* dbInstance.transaction(...) of batchInsertData settles: committed with every
\* row, or rolled back at the first row whose insert raised
InsertReturn ==
  \E t \in Awaited("insert") : \E k \in InsertOutcomes(t.conn, t.ctx.tableName, t.ctx.data) :
    /\ LET w0 == Take(t)
           w1 == IF HasTable(t.conn, t.ctx.tableName)
                 THEN [w0 EXCEPT !.conns[t.conn].tables[t.ctx.tableName] =
                                    transaction(@, t.ctx.data, k)]
                 ELSE w0
           w == IF k = 0 THEN w1 ELSE Fail(w1, "insert")
       IN  Commit(processAfterInsert(w, t.ctx,
                    IF k = 0 THEN [success |-> TRUE, error |-> "", data |-> None]
                    ELSE [success |-> FALSE, error |-> "Batch insert error", data |-> None]),
                  Event("insertReturn", IF k = 0 THEN "ok" ELSE "throw"))
    /\ UNCHANGED <<apiKey, lifecycle, reads, now, nUploads, nResets>>

\* dbInstance.query(sql) of queryTableData settles
QueryReturn ==
  \E t \in Awaited("query") : \E outcome \in QueryOutcomes(t.conn, t.ctx.tableName) :
    /\ Commit(processAfterQuery(IF outcome = "ok" THEN Take(t) ELSE Fail(Take(t), "query"), t.ctx,
                IF outcome = "ok"
                THEN [success |-> TRUE, error |-> "",
                      data |-> Some(slice(conns[t.conn].tables[t.ctx.tableName], t.limit))]
                ELSE [success |-> FALSE, error |-> "Failed to query table", data |-> None]),
              Event("queryReturn", outcome))
    /\ UNCHANGED <<apiKey, lifecycle, reads, now, nUploads, nResets>>

Next ==
  \/ useEffect
  \/ useEffectCleanup
  \/ Tick
  \/ ClickReset
  \/ handleFileChange
  \/ ReaderOnload
  \/ ReaderOnerror
  \/ AnalyzeReturn
  \/ ClickGenerateSql
  \/ GenerateReturn
  \/ ClickProcess
  \/ CloseReturn
  \/ InitCloseReturn
  \/ WaitReadyReturn
  \/ ExecReturn
  \/ InsertReturn
  \/ QueryReturn

Spec == Init /\ [][Next]_vars

\* The runs of a single upload, with every shape of file name, file content
\* and LLM answer.  No second session is ever opened, so the close that
\* initializePGLite awaits never happens.
handleFileChangeAny == handleFileChangeOf([id \in 1..MaxUploads |-> AllFiles(id)], 1)

AnalyzeReturnAny == AnalyzeReturnWith([id \in 1..MaxUploads |-> AllAnalyzeResponses(id)])

GenerateReturnAny == GenerateReturnWith(AllSqlResponses)

NextSingleRun ==
  \/ useEffect
  \/ useEffectCleanup
  \/ Tick
  \/ ClickReset
  \/ handleFileChangeAny
  \/ ReaderOnload
  \/ ReaderOnerror
  \/ AnalyzeReturnAny
  \/ ClickGenerateSql
  \/ GenerateReturnAny
  \/ ClickProcess
  \/ CloseReturn
  \/ WaitReadyReturn
  \/ ExecReturn
  \/ InsertReturn
  \/ QueryReturn

SpecSingleRun == Init /\ [][NextSingleRun]_vars

\* Every external call eventually returns: a request to the LLM service, the
\* close and the waitReady of the store open, the DDL, the insert transaction
\* and the preview query each settle, with success or failure.
SpecFair ==
  /\ Spec
  /\ WF_vars(AnalyzeReturn)
  /\ WF_vars(GenerateReturn)
  /\ WF_vars(InitCloseReturn)
  /\ WF_vars(WaitReadyReturn)
  /\ WF_vars(ExecReturn)
  /\ WF_vars(InsertReturn)
  /\ WF_vars(QueryReturn)

\* ------------------------------------------------------------- claims
Mounted == lifecycle = "mounted"
LastLog == ui.etlLogs[Len(ui.etlLogs)]
IsPrefix(s, r) == Len(s) <= Len(r) /\ SubSeq(r, 1, Len(s)) = s

\* C1.  The step changes only along the edges of the pipeline: every call of
\* setCurrentStep that changes the step follows one of the listed edges, is the
\* reset (to Upload, or to Error without the credential), or is the startup
\* check without the credential.
Edges ==
  { <<Upload, AnalyzingSchema>>,
    <<AnalyzingSchema, ReviewSchema>>, <<AnalyzingSchema, Error>>,
    <<ReviewSchema, GeneratingSql>>,
    <<GeneratingSql, ReviewSql>>, <<GeneratingSql, Error>>,
    <<ReviewSql, ProcessingDb>>,
    <<ProcessingDb, Done>>, <<ProcessingDb, Error>> }

AllowedWrite(prev, wr) ==
  \/ wr.step = prev
  \/ wr.by = "resetState" /\ wr.step = (IF apiKey THEN Upload ELSE Error)
  \/ wr.by = "useEffect" /\ ~apiKey /\ wr.step = Error
  \/ wr.by \notin {"resetState", "useEffect"} /\ <<prev, wr.step>> \in Edges

C1_OnlyPipelineEdges ==
  \A i \in 2..Len(ui.stepWrites) :
    AllowedWrite(ui.stepWrites[i - 1].step, ui.stepWrites[i])

\* C2.  At most one invocation of handleFileUpload is in progress: never two
\* schema requests of two uploads in flight.
C2_OneUploadInProgress ==
  \A t \in Awaited("analyze") : Awaited("analyze") = {t} /\ CopiesIn(t, tasks) = 1

\* C3.  Every failure of a component step (the preview query
\* included) ends in an error log entry, the error stored and the step Error.
FailureSurfaced ==
  /\ ui.currentStep = Error
  /\ IsSome(ui.globalError)
  /\ LastLog.type = "error"

C3_EveryFailureToError ==
  Mounted /\ ev.failed # {} => FailureSurfaced

\* C4.  Whenever the step is Error the current error is a non-empty message.
C4_ErrorHasMessage ==
  ui.currentStep = Error => IsSome(ui.globalError) /\ Len(The(ui.globalError)) > 0

C4_Witness ==
  /\ apiKey
  /\ ev.op = "analyzeReturn"
  /\ ui.currentStep = Error

\* C5.  Without the credential, once the startup check has run the step is
\* Error with a non-empty error in every later state of the mounted component.
C5_MissingKeyStaysError ==
  ~apiKey /\ Mounted => ui.currentStep = Error /\ IsSome(ui.globalError)

C5_Witness ==
  /\ ~apiKey
  /\ ev.op = "resetState"
  /\ nResets = MaxResets
  /\ ui.currentStep = Error

\* C6.  Without the credential nothing operates: no LLM request is in flight,
\* no store connection was ever constructed, no derived data is set.
NoDerivedData(s) ==
  /\ s.file = None
  /\ s.rawDataPreview = None
  /\ s.fullParsedData = None
  /\ s.schemaAnalysis = None
  /\ s.generatedCreateTableSql = None
  /\ s.currentDbName = None
  /\ s.dbDataPreview = None
  /\ s.pgliteStatus = "inactive"

C6_MissingKeyNothingOperates ==
  ~apiKey =>
    /\ tasks = EmptyBag
    /\ reads = EmptyBag
    /\ conns = <<>>
    /\ svc = InitSvc
    /\ NoDerivedData(ui)

C6_Witness ==
  /\ ~apiKey
  /\ ev.op = "resetState"
  /\ Len(ui.etlLogs) > 1
  /\ NoDerivedData(ui)

\* C7.  A reset sets the step to Upload and clears the error when the
\* credential is present; without it the step is Error and the error is left
\* as it was.
C7_ResetStepAndError ==
  [][nResets' = nResets + 1 =>
       IF apiKey
       THEN ui'.currentStep = Upload /\ ui'.globalError = None
       ELSE ui'.currentStep = Error /\ ui'.globalError = ui.globalError]_vars

C7_Witness ==
  /\ apiKey
  /\ ev.op = "resetState"
  /\ ui.currentStep = Upload
  /\ ui.globalError = None
  /\ \E i \in 1..Len(ui.etlLogs) : ui.etlLogs[i].type = "error"

\* C8.  A reset clears all derived data and keeps the log: the log before the
\* reset is a prefix of the log after it.
C8_ResetClearsDataKeepsLog ==
  [][nResets' = nResets + 1 =>
       /\ NoDerivedData(ui')
       /\ IsPrefix(ui.etlLogs, ui'.etlLogs)]_vars

C8_Witness ==
  /\ ev.op = "resetState"
  /\ Len(conns) > 0
  /\ Len(ui.etlLogs) > 10
  /\ NoDerivedData(ui)

\* C9.  close is invoked at most once on a connection, by whatever reset, open
\* of a new session or unmount cleanup.
C9_CloseNeverInvokedTwice ==
  \A c \in 1..Len(conns) : conns[c].closeCalls <= 1

\* C10.  When a new run starts, the reset it began with has torn the previous
\* connection down: the service holds no connection.
C10_ResetTearsDownSynchronously ==
  ev.op = "handleFileUpload" /\ apiKey => svc.dbInstance = None

\* C11.  At most one store connection is live: a PGlite instance is live from
\* its construction until its close() resolves or its start-up fails.
Live(c) == conns[c].state \in {"starting", "ready"}

C11_AtMostOneLiveConnection ==
  Cardinality({c \in 1..Len(conns) : Live(c)}) <= 1

\* C12.  Open is idempotent for the same key: initializePGLite(k) called while
\* the service holds a connection under key k succeeds at once and leaves the
\* handle, the key and every instance as they are (nothing closed, nothing
\* constructed); the handler goes straight on to the DDL.
InSeq(x, s) == \E i \in 1..Len(s) : s[i] = x

CalledWith(e, fn, open) ==
  \E i \in 1..Len(e.calls) : e.calls[i].fn = fn /\ e.calls[i].open = open

C12_OpenIdempotentSameKey ==
  [][(/\ tasks' # tasks
       /\ \E i \in 1..Len(ev'.calls) :
            /\ ev'.calls[i].fn = "initializePGLite"
            /\ ev'.calls[i].open
            /\ ev'.calls[i].same)
     => (/\ svc' = svc
         /\ conns' = conns
         /\ ev'.awaited = <<"exec">>
         /\ "open" \notin ev'.failed
         /\ ui'.pgliteStatus = "ready")]_vars

C12_Witness ==
  /\ ev.op = "handleProcessWithPGLite"
  /\ CalledWith(ev, "initializePGLite", TRUE)
  /\ \A i \in 1..Len(ev.calls) : ev.calls[i].fn = "initializePGLite" => ev.calls[i].same
  /\ ev.awaited = <<"exec">>
  /\ Len(conns) = 1

\* C13.  Close is safe in every state: closePGLite (from a reset or from the
\* unmount cleanup) with no connection held changes nothing and starts nothing;
\* when the close() of a held connection settles, resolved or rejected, the
\* handle and the stored key are null.
C13_CloseSafe ==
  [][/\ ((nResets' = nResets + 1 \/ (lifecycle' = "unmounted" /\ lifecycle = "mounted"))
          /\ svc.dbInstance = None)
        => (svc' = svc /\ conns' = conns /\ tasks' = tasks)
     /\ (ev'.op = "closeReturn" /\ tasks' # tasks)
        => svc' = [dbInstance |-> None, currentDbName |-> None]]_vars

C13_Witness ==
  /\ ev.op = "closeReturn"
  /\ ev.res = "throw"
  /\ svc = [dbInstance |-> None, currentDbName |-> None]
  /\ \E c \in 1..Len(conns) : conns[c].state = "ready" /\ conns[c].closeCalls = 1

\* C14.  Store operations require an open connection: executeSql,
\* batchInsertData or queryTableData called while the service holds no
\* connection returns a failure, sends nothing to the store and leaves the
\* handle null.
C14_NoConnectionNoOperation ==
  /\ CalledWith(ev, "executeSql", FALSE)
       => ("ddl" \in ev.failed /\ ~InSeq("exec", ev.awaited) /\ svc.dbInstance = None)
  /\ CalledWith(ev, "batchInsertData", FALSE)
       => ("insert" \in ev.failed /\ ~InSeq("insert", ev.awaited) /\ svc.dbInstance = None)
  /\ CalledWith(ev, "queryTableData", FALSE)
       => ("query" \in ev.failed /\ ~InSeq("query", ev.awaited) /\ svc.dbInstance = None)

C14_Witness ==
  /\ ev.op = "execReturn"
  /\ ev.res = "ok"
  /\ CalledWith(ev, "batchInsertData", FALSE)
  /\ ev.failed = {"insert"}

\* C15.  Batch insert is atomic: when the transaction of batchInsertData fails
\* at some row, no instance and no table has changed; when it succeeds the
\* target table has gained all the rows of the batch, in order.
C15_BatchInsertAtomic ==
  [][(ev'.op = "insertReturn" /\ tasks' # tasks)
     => IF ev'.res = "throw"
        THEN conns' = conns /\ "insert" \in ev'.failed
        ELSE \E t \in Awaited("insert") :
               /\ HasTable(t.conn, t.ctx.tableName)
               /\ conns' = [conns EXCEPT ![t.conn].tables[t.ctx.tableName] = @ \o t.ctx.data]]_vars

C15_Witness ==
  /\ ev.op = "insertReturn"
  /\ ev.res = "throw"
  /\ \E c \in 1..Len(conns) :
       Ready(c) /\ \E n \in DOMAIN conns[c].tables : conns[c].tables[n] = <<>>

\* C16 as stated.  batchInsertData with zero rows returns success without
\* contacting the store, in every state of the connection.
ZeroRowCall(i) ==
  ev.calls[i].fn = "batchInsertData" /\ ev.calls[i].rows = 0

C16_ZeroRowsAlwaysSucceed ==
  \A i \in 1..Len(ev.calls) :
    ZeroRowCall(i) => ("insert" \notin ev.failed /\ ~InSeq("insert", ev.awaited))

\* C16 as amended.  batchInsertData with zero rows never contacts the store;
\* it returns success when the service holds a connection (the handler goes on
\* to the preview query) and the failure "PGLite not initialized." when it
\* holds none.
C16_ZeroRowsSucceedWhenOpen ==
  \A i \in 1..Len(ev.calls) :
    ZeroRowCall(i) =>
      /\ ~InSeq("insert", ev.awaited)
      /\ IF ev.calls[i].open
         THEN ("insert" \notin ev.failed /\ i < Len(ev.calls)
               /\ ev.calls[i + 1].fn = "queryTableData")
         ELSE "insert" \in ev.failed

C16_Witness ==
  \E i \in 1..Len(ev.calls) : ZeroRowCall(i) /\ ev.calls[i].open

\* C17.  Within one run the steps execute in order, each after the previous one
\* of that run succeeded: an SQL request is made for a schema analysis of the
\* file of the run; the store is opened for SQL generated for the file of the
\* run; the DDL follows a successful open, the insert a successful DDL, the
\* preview query a successful insert, and Done the preview query.
C17_StepsInOrderWithinRun ==
  Mounted =>
    /\ InSeq("gensql", ev.awaited)
         => /\ ev.op = "handleGenerateSql"
            /\ IsSome(ui.file) /\ IsSome(ui.schemaAnalysis)
            /\ The(ui.schemaAnalysis).of = The(ui.file).id
    /\ (CalledWith(ev, "initializePGLite", TRUE) \/ CalledWith(ev, "initializePGLite", FALSE))
         => /\ ev.op = "handleProcessWithPGLite"
            /\ IsSome(ui.file) /\ IsSome(ui.generatedCreateTableSql)
            /\ The(ui.generatedCreateTableSql).columns.of = The(ui.file).id
    /\ InSeq("exec", ev.awaited)
         => (ev.op = "handleProcessWithPGLite" \/ (ev.op = "waitReadyReturn" /\ ev.res = "ok"))
    /\ InSeq("insert", ev.awaited) => (ev.op = "execReturn" /\ ev.res = "ok")
    /\ InSeq("query", ev.awaited)
         => (ev.op \in {"execReturn", "insertReturn"} /\ ev.res = "ok")

\* C18.  Once the step is Error it stays Error until a reset (a click on the
\* reset button, or the reset a new upload begins with).
C18_ErrorUntilReset ==
  [][(/\ lifecycle = "mounted" /\ lifecycle' = "mounted"
       /\ ui.currentStep = Error
       /\ ui'.currentStep # Error)
     => (nResets' = nResets + 1 \/ reads' # reads)]_vars

\* C19.  End-to-end success: when a file with at least one row is the only one
\* picked and the preview query of its run returns, the step is Done, the table
\* holds exactly the parsed rows, and the log is the record of the major steps
\* in order, none of severity error.
SuccessLog ==
  << <<"State reset. Ready for new file upload.", "info">>,
     <<"File selected: ", "info">>,
     <<"Successfully parsed rows: ", "info">>,
     <<"Starting schema analysis with Gemini...", "info">>,
     <<"Schema analysis complete.", "success">>,
     <<"Generating SQL CREATE TABLE statement with Gemini...", "info">>,
     <<"SQL CREATE TABLE statement generated.", "success">>,
     <<"Processing data with PGLite...", "info">>,
     <<"Initializing PGLite database: ", "info">>,
     <<"PGLite initialized successfully.", "success">>,
     <<"Executing CREATE TABLE statement for table ", "info">>,
     <<"Table created successfully: ", "success">>,
     <<"Inserting rows: ", "info">>,
     <<"Data insertion complete. Rows processed: ", "success">>,
     <<"Fetching preview from table ", "info">>,
     <<"Successfully fetched rows from ", "success">>,
     <<"ETL process completed.", "success">> >>

SingleRunDone ==
  /\ Mounted
  /\ nUploads = 1
  /\ ev.op = "queryReturn"
  /\ ev.res = "ok"

C20_LogAppendOnly ==
  [][lifecycle' = "mounted" => IsPrefix(ui.etlLogs, ui'.etlLogs)]_vars

C20_Witness ==
  /\ Mounted
  /\ nResets = MaxResets
  /\ nUploads = MaxUploads
  /\ \E i \in 1..Len(ui.etlLogs) : ui.etlLogs[i].type = "error"
  /\ Len(ui.etlLogs) > 20

\* C21.  Log entry ids are unique and strictly increasing in the order of
\* appending.
C21_LogIdsUniqueMonotonic ==
  \A i, j \in 1..Len(ui.etlLogs) :
    i < j => ui.etlLogs[i].id < ui.etlLogs[j].id

\* C22.  Every change of the step comes with at least one new log entry,
\* appended by the same action.
C22_TransitionAppendsLog ==
  [][(lifecycle' = "mounted" /\ ui'.currentStep # ui.currentStep)
     => (Len(ui'.etlLogs) > Len(ui.etlLogs) /\ IsPrefix(ui.etlLogs, ui'.etlLogs))]_vars

C22_Witness ==
  /\ Mounted
  /\ ev.op = "queryReturn"
  /\ ui.currentStep = Done
  /\ LastLog.message = <<"ETL process completed.">>

\* C23.  No automatic retry: an upload issues at most one schema request and a
\* schema confirmation at most one SQL request; a request that failed
\* (rejected, unparsable, wrong shape) is not sent again and ends in one
\* failure: one write of the step, to Error.
Count(x, s) == Cardinality({i \in 1..Len(s) : s[i] = x})

C23_NoAutomaticRetry ==
  /\ Count("analyze", ev.awaited) <= 1
  /\ Count("gensql", ev.awaited) <= 1
  /\ InSeq("analyze", ev.awaited) => ev.op = "handleFileUpload"
  /\ InSeq("gensql", ev.awaited) => ev.op = "handleGenerateSql"
  /\ \A t \in Awaited("analyze") \cup Awaited("gensql") :
       CopiesIn(t, tasks) = 1 /\ Awaited(t.kind) = {t}
  /\ (ev.op \in {"analyzeReturn", "generateReturn"} /\ ev.res = "fail")
       => /\ ev.awaited = <<>>
          /\ Cardinality(ev.failed) = 1
          /\ Awaited("analyze") \cup Awaited("gensql") = {}
          /\ Mounted => (Len(ui.stepWrites) = 2 /\ ui.currentStep = Error)

C23_Witness ==
  /\ Mounted
  /\ ev.op = "analyzeReturn"
  /\ ev.res = "fail"
  /\ ev.arg[3] = "invalid"
  /\ ui.currentStep = Error

\* C24.  Schema inference accepts only an array: an answer that was rejected,
\* cannot be parsed, or parses to anything but an array gives a failure, the
\* step Error and no schema analysis stored; an array, fenced or not, is stored
\* as the analysis.
C24_InferenceAcceptsOnlyArray ==
  ev.op = "analyzeReturn" =>
    IF ev.arg[1] = "text" /\ ev.arg[3] = "array"
    THEN /\ ev.res = "ok"
         /\ Mounted => /\ IsSome(ui.schemaAnalysis)
                       /\ The(ui.schemaAnalysis).k = "array"
                       /\ The(ui.schemaAnalysis).v = ev.arg[4]
                       /\ ui.currentStep = ReviewSchema
    ELSE /\ ev.res = "fail"
         /\ "inference" \in ev.failed
         /\ Mounted => (ui.schemaAnalysis = None /\ ui.currentStep = Error)

C24_Witness ==
  /\ Mounted
  /\ ev.op = "analyzeReturn"
  /\ ev.arg[2] = "json"
  /\ ev.arg[3] = "object"
  /\ ui.currentStep = Error

\* C25.  The SQL generator accepts only a CREATE TABLE statement: an answer
\* whose text, without its fence, does not begin with CREATE TABLE in any
\* letter case gives a failure that carries the text, and the step Error; the
\* stored SQL and every DDL sent to the store begin with CREATE TABLE.
BeginsWithCreateTable(e) ==
  /\ e.arg[1] = "text"
  /\ e.arg[2] \in {"none", "sql"}
  /\ e.arg[3] \in {"CREATE TABLE", "create table"}

C25_GeneratorAcceptsOnlyCreateTable ==
  /\ ev.op = "generateReturn" =>
       IF BeginsWithCreateTable(ev)
       THEN /\ ev.res = "ok"
            /\ Mounted => (IsSome(ui.generatedCreateTableSql) /\ ui.currentStep = ReviewSql)
       ELSE /\ ev.res = "fail"
            /\ Mounted => /\ ui.generatedCreateTableSql = None
                          /\ ui.currentStep = Error
                          /\ IsSome(ui.globalError)
                          /\ ev.arg[1] = "text" => Len(The(ui.globalError)) = 3
  /\ IsSome(ui.generatedCreateTableSql)
       => The(ui.generatedCreateTableSql).stmt \in {"CREATE TABLE", "create table"}
  /\ \A t \in Awaited("exec") : t.ctx.sql.stmt \in {"CREATE TABLE", "create table"}

C25_Witness ==
  /\ Mounted
  /\ ev.op = "generateReturn"
  /\ ev.arg = <<"text", "sql", "create table">>
  /\ ui.currentStep = ReviewSql

\* C26.  For a JSON file parseData fails on every parsed value that is neither
\* an array nor an object.
Uploaded == Mounted /\ ev.op = "handleFileUpload" /\ IsSome(ui.file)

Extension(f) == toLowerCase(f.name[Len(f.name)])

C26_JsonScalarsRejected ==
  (/\ Uploaded
   /\ Extension(The(ui.file)) = "json"
   /\ The(ui.file).content.json.k \in {"number", "string", "boolean", "null"})
  => ("parse" \in ev.failed /\ ui.fullParsedData = None)

\* C27.  For a JSON file parseData returns the elements of an array, as many
\* and in the same order; one object as a sequence of length 1; and fails on
\* content that is not JSON.
C27_JsonArrayAndObject ==
  (Uploaded /\ Extension(The(ui.file)) = "json") =>
    LET json == The(ui.file).content.json
    IN  /\ json.k = "array" => ui.fullParsedData = Some(json.v)
        /\ json.k = "object" => ui.fullParsedData = Some(<<json.v[1]>>)
        /\ json.k = "invalid"
             => /\ "parse" \in ev.failed
                /\ ui.fullParsedData = None
                /\ ui.currentStep = Error
                /\ ui.globalError = Some(<<"Failed to process file or analyze schema: ", "Invalid JSON format.">>)

C27_Witness ==
  /\ Uploaded
  /\ The(ui.file).name = <<"data", "Json">>
  /\ The(ui.file).content.json.k = "array"
  /\ IsSome(ui.fullParsedData)
  /\ Len(The(ui.fullParsedData)) = MaxRows

\* C28.  parseData fails with the unsupported-format error for every name
\* whose extension is neither csv nor json in any letter case, names without a
\* dot included.
C28_UnsupportedExtensionFails ==
  (/\ Uploaded
   /\ \/ Len(The(ui.file).name) = 1
      \/ Extension(The(ui.file)) \notin {"csv", "json"})
  => /\ "parse" \in ev.failed
     /\ ui.globalError = Some(<<"Failed to process file or analyze schema: ",
                                "Unsupported file type. Please use CSV or JSON.">>)

\* C29.  What is loaded into the store belongs to one upload: for every DDL and
\* every batch insert in flight, the rows, the schema analysis the SQL was
\* generated from and the file are those of the same upload.
OneUpload(ctx) ==
  /\ ctx.sql.columns.of = ctx.file.id
  /\ \A i \in 1..Len(ctx.data) : ctx.data[i].f = ctx.file.id

C29_LoadedDataOfOneUpload ==
  \A t \in Awaited("exec") \cup Awaited("insert") : OneUpload(t.ctx)

\* C30.  A close still in flight never affects a connection opened later: when
\* the close() of an instance settles, the service holds no handle or the
\* handle of that instance, never the handle of an instance constructed since.
C30_LateCloseHarmless ==
  [][\A t \in Awaited("close") :
       (ev'.op = "closeReturn" /\ tasks' = tasks (-) SetToBag({t}))
       => svc.dbInstance \in {None, Some(t.conn)}]_vars

\* C31.  The review states carry the data their confirm action needs: in
\* ReviewSchema the schema analysis and the file are set, and in ReviewSql the
\* generated SQL, the full parsed rows and the file are set, so that the guards
\* of handleGenerateSql and handleProcessWithPGLite let the confirmation through.
C31_ReviewStatesCarryData ==
  /\ (ui.currentStep = ReviewSchema) =>
       (IsSome(ui.schemaAnalysis) /\ IsSome(ui.file))
  /\ (ui.currentStep = ReviewSql) =>
       (IsSome(ui.generatedCreateTableSql) /\ IsSome(ui.fullParsedData) /\ IsSome(ui.file))

\* C32.  No run stays in a loading step forever: when every external call
\* eventually returns, a mounted component in AnalyzingSchema eventually is in
\* ReviewSchema or Error, one in GeneratingSql eventually in ReviewSql or Error,
\* and one in ProcessingDb eventually in Done or Error (or it has been
\* unmounted).
LeavesFor(step, targets) ==
  (Mounted /\ ui.currentStep = step) ~> (~Mounted \/ ui.currentStep \in targets)

C32_AnalyzingSchemaEnds == LeavesFor(AnalyzingSchema, {ReviewSchema, Error})

C32_GeneratingSqlEnds == LeavesFor(GeneratingSql, {ReviewSql, Error})

C32_ProcessingDbEnds == LeavesFor(ProcessingDb, {Done, Error})

====
